---- MODULE Spec2Model ----
(***************************************************************************)
(* curl_impersonate_shim.c: the exported bsn_curl_* functions of the FFI   *)
(* shim.  Each function is an action.  An action records the function and  *)
(* arguments the host called (op), the calls it made into the wrapped      *)
(* library with the arguments and result of each (calls), and the value it *)
(* returned to the host (ret).  The wrapped library is the environment:     *)
(* its results are chosen nondeterministically, and its effects on the      *)
(* pending-message queue of the multi handle and on the caller's            *)
(* out-parameter cells are part of the action that makes the call.          *)
(*                                                                         *)
(* Pointers, codes, options and strings are integers; a value returned is   *)
(* a one-element sequence and a void return is the empty sequence.          *)
(***************************************************************************)
EXTENDS Integers, Sequences, FiniteSets, TLC

VARIABLES op, calls, ret, mem, queue

vars == <<op, calls, ret, mem, queue>>

\* ---------------------------------------------------------------- values

NULL == 0

\* Most messages the wrapped library holds pending at a time.
MaxQueue == 2

\* Addresses of the caller's cells that out-parameters point to.
AddrInt == 1
AddrMsg == 2
AddrEasy == 3
AddrResult == 4
\* Address of the CURLMsg the wrapped library returns from its own storage.
AddrMessage == 5

Addrs == {AddrInt, AddrMsg, AddrEasy, AddrResult}

EasyHandles == {11, 12}
MultiHandles == {21}
SLists == {31, 32}
CURLcodes == {0, 28}
CURLMcodes == {0, 1}
Strings == {41, 42}

\* The messages the wrapped library reports: transfer 11 done with result 0,
\* transfer 12 done with result 28 (msg 1 is CURLMSG_DONE).
Messages ==
    {[msg |-> 1, easy_handle |-> 11, result |-> 0],
     [msg |-> 1, easy_handle |-> 12, result |-> 28]}

RECURSIVE SeqsUpTo(_)
SeqsUpTo(n) ==
    IF n = 0 THEN {<<>>}
    ELSE LET shorter == SeqsUpTo(n - 1)
         IN  shorter \cup {Append(s, m) : s \in {t \in shorter : Len(t) = n - 1},
                                          m \in Messages}

\* ------------------------------------------------------------- the calls

\* One call into the wrapped library: its name, its arguments, its result.
Call(wfn, wargs, res) == [fn |-> wfn, args |-> wargs, res |-> res]

\* `return wrapped(args);` (or `wrapped(args);` in a void function, res = <<>>).
Forward(fn, args, wfn, wargs, res) ==
    /\ op' = [fn |-> fn, args |-> args]
    /\ calls' = <<Call(wfn, wargs, res)>>
    /\ ret' = res

\* The wrapped library stores v through pointer p, when p is given.
LibStore(m, p, v) == IF p = NULL THEN m ELSE [m EXCEPT ![p] = v]

Init ==
    /\ op = [fn |-> "none", args |-> <<>>]
    /\ calls = <<>>
    /\ ret = <<>>
    /\ mem = [a \in Addrs |-> 0]
    /\ queue = <<>>

\* ------------------------------------------------------ global and easy

bsn_curl_global_init ==
    \E flags \in {0, 3}, r \in CURLcodes :
        /\ Forward("bsn_curl_global_init", <<flags>>,
                   "curl_global_init", <<flags>>, <<r>>)
        /\ UNCHANGED <<mem, queue>>

bsn_curl_easy_init ==
    \E r \in EasyHandles \cup {NULL} :
        /\ Forward("bsn_curl_easy_init", <<>>, "curl_easy_init", <<>>, <<r>>)
        /\ UNCHANGED <<mem, queue>>

bsn_curl_easy_cleanup ==
    \E h \in EasyHandles :
        /\ Forward("bsn_curl_easy_cleanup", <<h>>, "curl_easy_cleanup", <<h>>, <<>>)
        /\ UNCHANGED <<mem, queue>>

bsn_curl_easy_reset ==
    \E h \in EasyHandles :
        /\ Forward("bsn_curl_easy_reset", <<h>>, "curl_easy_reset", <<h>>, <<>>)
        /\ UNCHANGED <<mem, queue>>

\* The argument triples the setopt family is called with: each position takes
\* two values and no two positions share a value.
SetoptArgs == {<<11, 51, 61>>, <<12, 52, 62>>}

bsn_curl_easy_setopt_long ==
    \E a \in SetoptArgs, r \in CURLcodes :
        /\ Forward("bsn_curl_easy_setopt_long", a, "curl_easy_setopt", a, <<r>>)
        /\ UNCHANGED <<mem, queue>>

bsn_curl_easy_setopt_ptr ==
    \E a \in SetoptArgs, r \in CURLcodes :
        /\ Forward("bsn_curl_easy_setopt_ptr", a, "curl_easy_setopt", a, <<r>>)
        /\ UNCHANGED <<mem, queue>>

bsn_curl_easy_setopt_str ==
    \E a \in SetoptArgs, r \in CURLcodes :
        /\ Forward("bsn_curl_easy_setopt_str", a, "curl_easy_setopt", a, <<r>>)
        /\ UNCHANGED <<mem, queue>>

bsn_curl_easy_setopt_write_callback ==
    \E a \in SetoptArgs, r \in CURLcodes :
        /\ Forward("bsn_curl_easy_setopt_write_callback", a,
                   "curl_easy_setopt", a, <<r>>)
        /\ UNCHANGED <<mem, queue>>

bsn_curl_easy_setopt_xferinfo_callback ==
    \E a \in SetoptArgs, r \in CURLcodes :
        /\ Forward("bsn_curl_easy_setopt_xferinfo_callback", a,
                   "curl_easy_setopt", a, <<r>>)
        /\ UNCHANGED <<mem, queue>>

bsn_curl_easy_perform ==
    \E h \in EasyHandles, r \in CURLcodes :
        /\ Forward("bsn_curl_easy_perform", <<h>>, "curl_easy_perform", <<h>>, <<r>>)
        /\ UNCHANGED <<mem, queue>>

\* curl_easy_getinfo stores the value through the forwarded pointer.
bsn_curl_easy_getinfo_long ==
    \E h \in EasyHandles, info \in {51, 52}, value \in {NULL, AddrInt},
       v \in {0, 1}, r \in CURLcodes :
        /\ Forward("bsn_curl_easy_getinfo_long", <<h, info, value>>,
                   "curl_easy_getinfo", <<h, info, value>>, <<r>>)
        /\ mem' = LibStore(mem, value, v)
        /\ UNCHANGED queue

bsn_curl_easy_strerror ==
    \E code \in CURLcodes, r \in Strings :
        /\ Forward("bsn_curl_easy_strerror", <<code>>,
                   "curl_easy_strerror", <<code>>, <<r>>)
        /\ UNCHANGED <<mem, queue>>

bsn_curl_slist_append ==
    \E a \in {<<NULL, 41>>, <<31, 42>>}, r \in SLists \cup {NULL} :
        /\ Forward("bsn_curl_slist_append", a, "curl_slist_append", a, <<r>>)
        /\ UNCHANGED <<mem, queue>>

bsn_curl_slist_free_all ==
    \E list \in SLists \cup {NULL} :
        /\ Forward("bsn_curl_slist_free_all", <<list>>,
                   "curl_slist_free_all", <<list>>, <<>>)
        /\ UNCHANGED <<mem, queue>>

bsn_curl_easy_impersonate ==
    \E a \in {<<11, 41, 0>>, <<12, 42, 1>>}, r \in CURLcodes :
        /\ Forward("bsn_curl_easy_impersonate", a, "curl_easy_impersonate", a, <<r>>)
        /\ UNCHANGED <<mem, queue>>

\* ----------------------------------------------------------------- multi

bsn_curl_multi_init ==
    \E r \in MultiHandles \cup {NULL} :
        /\ Forward("bsn_curl_multi_init", <<>>, "curl_multi_init", <<>>, <<r>>)
        /\ UNCHANGED <<mem, queue>>

\* curl_multi_cleanup discards the messages still pending.
bsn_curl_multi_cleanup ==
    \E multi \in MultiHandles, r \in CURLMcodes :
        /\ Forward("bsn_curl_multi_cleanup", <<multi>>,
                   "curl_multi_cleanup", <<multi>>, <<r>>)
        /\ queue' = <<>>
        /\ UNCHANGED mem

bsn_curl_multi_add_handle ==
    \E multi \in MultiHandles, h \in EasyHandles, r \in CURLMcodes :
        /\ Forward("bsn_curl_multi_add_handle", <<multi, h>>,
                   "curl_multi_add_handle", <<multi, h>>, <<r>>)
        /\ UNCHANGED <<mem, queue>>

\* The messages of q that are not about easy handle h.
Without(q, h) == SelectSeq(q, LAMBDA m : m.easy_handle # h)

\* Whether curl_multi_remove_handle also drops the pending messages of the
\* handle is the wrapped library's choice: both outcomes are modelled.
bsn_curl_multi_remove_handle ==
    \E multi \in MultiHandles, h \in EasyHandles, r \in CURLMcodes :
        /\ Forward("bsn_curl_multi_remove_handle", <<multi, h>>,
                   "curl_multi_remove_handle", <<multi, h>>, <<r>>)
        /\ queue' \in {queue, Without(queue, h)}
        /\ UNCHANGED mem

\* curl_multi_perform drives the transfers: it may queue completion messages,
\* in an order of its own choosing, and stores the number of running handles
\* through the forwarded pointer.
bsn_curl_multi_perform ==
    \E multi \in MultiHandles, running_handles \in {NULL, AddrInt},
       done \in SeqsUpTo(MaxQueue - Len(queue)), running \in {0, 1},
       r \in CURLMcodes :
        /\ Forward("bsn_curl_multi_perform", <<multi, running_handles>>,
                   "curl_multi_perform", <<multi, running_handles>>, <<r>>)
        /\ queue' = queue \o done
        /\ mem' = LibStore(mem, running_handles, running)

\* A bsn_curl_multi_poll that passes 0 to the wrapped call instead of timeout_ms.
bsn_curl_multi_poll_no_timeout ==
    \E multi \in MultiHandles, timeout_ms \in {100, 200}, numfds \in {NULL, AddrInt},
       n \in {0, 1}, r \in CURLMcodes :
        /\ Forward("bsn_curl_multi_poll", <<multi, timeout_ms, numfds>>,
                   "curl_multi_poll", <<multi, NULL, 0, 0, numfds>>, <<r>>)
        /\ mem' = LibStore(mem, numfds, n)
        /\ UNCHANGED queue

\* curl_multi_poll is called with no extra file descriptors (NULL, 0) and
\* stores the number of ready descriptors through the forwarded pointer.
bsn_curl_multi_poll ==
    \E multi \in MultiHandles, timeout_ms \in {100, 200}, numfds \in {NULL, AddrInt},
       n \in {0, 1}, r \in CURLMcodes :
        /\ Forward("bsn_curl_multi_poll", <<multi, timeout_ms, numfds>>,
                   "curl_multi_poll", <<multi, NULL, 0, timeout_ms, numfds>>, <<r>>)
        /\ mem' = LibStore(mem, numfds, n)
        /\ UNCHANGED queue

\* A CopyMessage whose last store is guarded by msg instead of result.
CopyMessageWrongGuard(message, msg, easy_handle, result, m) ==
    LET m1 == IF msg # NULL THEN [m EXCEPT ![msg] = message.msg] ELSE m
        m2 == IF easy_handle # NULL
              THEN [m1 EXCEPT ![easy_handle] = message.easy_handle] ELSE m1
    IN  IF msg # NULL THEN [m2 EXCEPT ![AddrResult] = message.result] ELSE m2

\* Lines 136-146: each field of the message is stored through its
\* out-parameter when that pointer is not NULL.
CopyMessage(message, msg, easy_handle, result, m) ==
    LET m1 == IF msg # NULL THEN [m EXCEPT ![msg] = message.msg] ELSE m
        m2 == IF easy_handle # NULL
              THEN [m1 EXCEPT ![easy_handle] = message.easy_handle] ELSE m1
    IN  IF result # NULL THEN [m2 EXCEPT ![result] = message.result] ELSE m2

\* curl_multi_info_read takes the oldest pending message off the queue, or
\* returns NULL when there is none, and stores the number of messages left
\* through msgs_in_queue.
bsn_curl_multi_info_read ==
    \E multi \in MultiHandles, msg \in {NULL, AddrMsg},
       easy_handle \in {NULL, AddrEasy}, result \in {NULL, AddrResult} :
        LET msgs_in_queue == AddrInt
            message == IF queue = <<>> THEN NULL ELSE AddrMessage
            left == IF queue = <<>> THEN 0 ELSE Len(queue) - 1
            called == LibStore(mem, msgs_in_queue, left)
        IN  /\ op' = [fn |-> "bsn_curl_multi_info_read",
                      args |-> <<multi, msgs_in_queue, msg, easy_handle, result>>]
            /\ calls' = <<Call("curl_multi_info_read", <<multi, msgs_in_queue>>,
                               <<message>>)>>
            /\ IF message = NULL
               THEN /\ ret' = <<0>>
                    /\ mem' = called
                    /\ queue' = queue
               ELSE /\ ret' = <<1>>
                    /\ mem' = CopyMessage(Head(queue), msg, easy_handle, result, called)
                    /\ queue' = Tail(queue)

bsn_curl_multi_wakeup ==
    \E multi \in MultiHandles, r \in CURLMcodes :
        /\ Forward("bsn_curl_multi_wakeup", <<multi>>,
                   "curl_multi_wakeup", <<multi>>, <<r>>)
        /\ UNCHANGED <<mem, queue>>

bsn_curl_multi_strerror ==
    \E code \in CURLMcodes, r \in Strings :
        /\ Forward("bsn_curl_multi_strerror", <<code>>,
                   "curl_multi_strerror", <<code>>, <<r>>)
        /\ UNCHANGED <<mem, queue>>

Next ==
    \/ bsn_curl_global_init
    \/ bsn_curl_easy_init
    \/ bsn_curl_easy_cleanup
    \/ bsn_curl_easy_reset
    \/ bsn_curl_easy_setopt_long
    \/ bsn_curl_easy_setopt_ptr
    \/ bsn_curl_easy_setopt_str
    \/ bsn_curl_easy_setopt_write_callback
    \/ bsn_curl_easy_setopt_xferinfo_callback
    \/ bsn_curl_easy_perform
    \/ bsn_curl_easy_getinfo_long
    \/ bsn_curl_easy_strerror
    \/ bsn_curl_slist_append
    \/ bsn_curl_slist_free_all
    \/ bsn_curl_easy_impersonate
    \/ bsn_curl_multi_init
    \/ bsn_curl_multi_cleanup
    \/ bsn_curl_multi_add_handle
    \/ bsn_curl_multi_remove_handle
    \/ bsn_curl_multi_perform
    \/ bsn_curl_multi_poll
    \/ bsn_curl_multi_info_read
    \/ bsn_curl_multi_wakeup
    \/ bsn_curl_multi_strerror

Spec == Init /\ [][Next]_vars

\* ---------------------------------------------------------------- claims

\* The wrapped function each exported function is named after.
WrappedName(fn) ==
    CASE fn = "bsn_curl_global_init" -> "curl_global_init"
      [] fn = "bsn_curl_easy_init" -> "curl_easy_init"
      [] fn = "bsn_curl_easy_cleanup" -> "curl_easy_cleanup"
      [] fn = "bsn_curl_easy_reset" -> "curl_easy_reset"
      [] fn \in {"bsn_curl_easy_setopt_long", "bsn_curl_easy_setopt_ptr",
                 "bsn_curl_easy_setopt_str", "bsn_curl_easy_setopt_write_callback",
                 "bsn_curl_easy_setopt_xferinfo_callback"} -> "curl_easy_setopt"
      [] fn = "bsn_curl_easy_perform" -> "curl_easy_perform"
      [] fn = "bsn_curl_easy_getinfo_long" -> "curl_easy_getinfo"
      [] fn = "bsn_curl_easy_strerror" -> "curl_easy_strerror"
      [] fn = "bsn_curl_slist_append" -> "curl_slist_append"
      [] fn = "bsn_curl_slist_free_all" -> "curl_slist_free_all"
      [] fn = "bsn_curl_easy_impersonate" -> "curl_easy_impersonate"
      [] fn = "bsn_curl_multi_init" -> "curl_multi_init"
      [] fn = "bsn_curl_multi_cleanup" -> "curl_multi_cleanup"
      [] fn = "bsn_curl_multi_add_handle" -> "curl_multi_add_handle"
      [] fn = "bsn_curl_multi_remove_handle" -> "curl_multi_remove_handle"
      [] fn = "bsn_curl_multi_perform" -> "curl_multi_perform"
      [] fn = "bsn_curl_multi_poll" -> "curl_multi_poll"
      [] fn = "bsn_curl_multi_info_read" -> "curl_multi_info_read"
      [] fn = "bsn_curl_multi_wakeup" -> "curl_multi_wakeup"
      [] fn = "bsn_curl_multi_strerror" -> "curl_multi_strerror"
      [] OTHER -> "none"

\* The caller's arguments as the wrapped function takes them: all of them in
\* order, except that curl_multi_poll takes no extra descriptors (NULL, 0)
\* between the handle and the timeout, and curl_multi_info_read takes the
\* handle and msgs_in_queue only.
CallerArgs(o) ==
    CASE o.fn = "bsn_curl_multi_poll" ->
            <<o.args[1], NULL, 0, o.args[2], o.args[3]>>
      [] o.fn = "bsn_curl_multi_info_read" -> <<o.args[1], o.args[2]>>
      [] OTHER -> o.args

\* Exactly one call, of the wrapped function, with the caller's arguments.
OneForwardedCall ==
    /\ Len(calls) = 1
    /\ calls[1].fn = WrappedName(op.fn)
    /\ calls[1].args = CallerArgs(op)

\* C7 as stated: after every exported function, exactly one call of the
\* wrapped function was made with the caller's arguments and the value
\* returned is that call's result, unchanged.
C7_EveryFunctionReturnsTheCallsResult ==
    op.fn # "none" => (OneForwardedCall /\ ret = calls[1].res)

\* C7 amended: after every exported function, exactly one call of the wrapped
\* function was made with the caller's arguments; every function other than
\* bsn_curl_multi_info_read returns that call's result unchanged, and
\* bsn_curl_multi_info_read returns 0 when the call returned NULL and 1
\* otherwise.
C7_ForwardingExceptInfoRead ==
    op.fn # "none" =>
        /\ OneForwardedCall
        /\ IF op.fn = "bsn_curl_multi_info_read"
           THEN ret = <<IF calls[1].res = <<NULL>> THEN 0 ELSE 1>>
           ELSE ret = calls[1].res

\* bsn_curl_multi_info_read got a message from the wrapped call and returned 1,
\* not the CURLMsg pointer.
C7_Witness ==
    /\ op.fn = "bsn_curl_multi_info_read"
    /\ calls[1].res = <<AddrMessage>>
    /\ ret = <<1>>

\* A step of bsn_curl_multi_info_read.
InfoReadStep == op'.fn = "bsn_curl_multi_info_read"

\* What the cell holds after the step: the field, when the out-parameter p is
\* not NULL, and what it held before otherwise.
CellAfter(p, cell, field) == IF p # NULL THEN field ELSE mem[cell]

\* The part of C10 that the amended claim keeps: 0 and the three cells
\* unchanged when no message is pending; otherwise 1, the oldest message taken
\* off the queue, and its type, handle and result in exactly the cells whose
\* out-parameter is not NULL.
InfoReadEffect ==
    IF queue = <<>>
    THEN /\ ret' = <<0>>
         /\ queue' = queue
         /\ mem'[AddrMsg] = mem[AddrMsg]
         /\ mem'[AddrEasy] = mem[AddrEasy]
         /\ mem'[AddrResult] = mem[AddrResult]
    ELSE /\ ret' = <<1>>
         /\ queue' = Tail(queue)
         /\ mem'[AddrMsg] = CellAfter(op'.args[3], AddrMsg, Head(queue).msg)
         /\ mem'[AddrEasy] = CellAfter(op'.args[4], AddrEasy, Head(queue).easy_handle)
         /\ mem'[AddrResult] = CellAfter(op'.args[5], AddrResult, Head(queue).result)

\* C10 as stated: bsn_curl_multi_info_read returns 0 and leaves *msg,
\* *easy_handle and *result unchanged when no message is pending; otherwise it
\* returns 1, consumes one message and writes its fields to the non-NULL ones
\* of the three out-parameters, and modifies nothing else: the caller's
\* remaining cell keeps its value.
C10_NothingElseModified ==
    [][InfoReadStep =>
        /\ InfoReadEffect
        /\ (queue # <<>> => mem'[AddrInt] = mem[AddrInt])]_vars

\* C10 amended: as stated, except that when a message is consumed
\* *msgs_in_queue is modified too: the wrapped call leaves there the number of
\* messages still pending.
C10_InfoReadFrame ==
    [][InfoReadStep =>
        /\ InfoReadEffect
        /\ (queue # <<>> => mem'[AddrInt] = Len(queue'))]_vars

\* bsn_curl_multi_info_read returned 1 with msg NULL and easy_handle given:
\* the handle of the second transfer was stored and one message is left.
C10_Witness ==
    /\ op.fn = "bsn_curl_multi_info_read"
    /\ ret = <<1>>
    /\ op.args[3] = NULL
    /\ op.args[4] = AddrEasy
    /\ op.args[5] = AddrResult
    /\ mem[AddrMsg] = 0
    /\ mem[AddrEasy] = 12
    /\ mem[AddrResult] = 28
    /\ mem[AddrInt] = 1
    /\ Len(queue) = 1

====
